---- MODULE Spec2Model ----
(***************************************************************************)
(* Browse API connection of ebaysdk (ebaysdk/browse/__init__.py): the      *)
(* lazily fetched OAuth2 token, the per-call request builder and the       *)
(* extraction of errors from a response.                                   *)
(*                                                                         *)
(* Python values are tagged records, so that a string, an integer and      *)
(* None can live in one mapping: Str("a"), PyInt(5), None.  A dict is the  *)
(* sequence of its <<key, value>> items in insertion order, keys distinct. *)
(* An absent dict (data=None) is the value None.                           *)
(***************************************************************************)
EXTENDS Integers, Sequences, FiniteSets, TLC

VARIABLES
    config,         \* self.config: appid, certid, siteid, domain, uri, https
    token,          \* self._token, or NoToken while the attribute is not set
    now,            \* time.time(), read by OAuth2Token.is_expired
    verb,           \* self.verb
    method,         \* self.method
    request_dict,   \* self._request_dict
    request,        \* self.request, the prepared request
    calls,          \* responses of the token endpoint to the requests the last call made
    ret,            \* the last call: its name, arguments, state before, and outcome
    response,       \* self.response: status_code, reason and the JSON body
    response_error,     \* self._response_error
    resp_body_errors,   \* self._resp_body_errors
    resp_body_warnings, \* self._resp_body_warnings
    resp_codes          \* self._resp_codes

\* The attributes the response handling writes.
respvars == <<response, response_error, resp_body_errors, resp_body_warnings, resp_codes>>

vars == <<config, token, now, verb, method, request_dict, request, calls, ret,
          response, response_error, resp_body_errors, resp_body_warnings, resp_codes>>

-----------------------------------------------------------------------------
(* Bounds *)

MaxTime == 3        \* the clock runs 0..MaxTime
MaxTTL == 1         \* a fetched token expires at now + (0..MaxTTL)
MaxItems == 2       \* items in a request mapping
MaxEntries == 2     \* entries of a response body, errors and warnings together

-----------------------------------------------------------------------------
(* Python values *)

None == [t |-> "none"]
Str(s) == [t |-> "str", s |-> s]
PyInt(i) == [t |-> "int", i |-> i]
Dict(items) == [t |-> "dict", items |-> items]

\* Python truthiness of a config value: `not v` holds for None and for ''.
Falsy(v) == v = None \/ v = Str("")

\* str(v), as str.format and an f-string render a value.
PyStr(v) ==
    IF v.t = "none" THEN "None"
    ELSE IF v.t = "int" THEN ToString(v.i)
    ELSE v.s

-----------------------------------------------------------------------------
(* Token cache *)

NoToken == [absent |-> TRUE]

AccessTokens == {"tokA", "tokB"}

\* What client.fetch_token can do at time t: return a token, or raise.
FetchResults(t) ==
    { [kind |-> "token", token |-> [access_token |-> a, expires_at |-> t + d]] :
        a \in AccessTokens, d \in 0..MaxTTL }
    \cup
    { [kind |-> "raise", exc |-> e, msg |-> "OAuth error"] :
        e \in {"OAuth2Error", "RequestException", "Exception"} }

Return(v) == [kind |-> "return", value |-> v]
Raise(e, m) == [kind |-> "raise", exc |-> e, msg |-> m]

\* OAuth2Token.is_expired(): the expiry time lies in the past.
is_expired(tok, t) == tok.expires_at < t

\* line 236: not hasattr(self, '_token') or self._token.is_expired()
needs_fetchAlways(tok, t) == TRUE

needs_fetch(tok, t) == tok = NoToken \/ is_expired(tok, t)

\* line 240: not client_id or not client_secret
credentials_missingNever(cfg) == FALSE

credentials_missing(cfg) == Falsy(cfg.appid) \/ Falsy(cfg.certid)

\* line 257: except (OAuth2Error, RequestException)
CaughtExceptions == {"OAuth2Error", "RequestException"}

\* The access_token property: the token after the access, the responses of the
\* token endpoint to the requests made, and the value returned or exception raised.
\* `resp` is what fetch_token does if it is called.
access_tokenDropsOnFailure(tok, cfg, t, resp) ==
    IF needs_fetch(tok, t)
    THEN IF credentials_missing(cfg)
         THEN [token |-> NoToken, calls |-> << >>,
               out |-> Raise("ValueError",
                   "appid (client id) and certid (client secret) are required for OAuth")]
         ELSE IF resp.kind = "token"
         THEN [token |-> resp.token, calls |-> <<resp>>,
               out |-> Return(resp.token.access_token)]
         ELSE IF resp.exc \in CaughtExceptions
         THEN [token |-> NoToken, calls |-> <<resp>>,
               out |-> Raise("ConnectionError",
                             "Failed to get access token: " \o resp.msg)]
         ELSE [token |-> NoToken, calls |-> <<resp>>, out |-> Raise(resp.exc, resp.msg)]
    ELSE [token |-> tok, calls |-> << >>, out |-> Return(tok.access_token)]

access_token(tok, cfg, t, resp) ==
    IF needs_fetch(tok, t)
    THEN IF credentials_missing(cfg)
         THEN [token |-> tok, calls |-> << >>,
               out |-> Raise("ValueError",
                   "appid (client id) and certid (client secret) are required for OAuth")]
         ELSE IF resp.kind = "token"
         THEN [token |-> resp.token, calls |-> <<resp>>,
               out |-> Return(resp.token.access_token)]
         ELSE IF resp.exc \in CaughtExceptions
         THEN [token |-> tok, calls |-> <<resp>>,
               out |-> Raise("ConnectionError",
                             "Failed to get access token: " \o resp.msg)]
         ELSE [token |-> tok, calls |-> <<resp>>, out |-> Raise(resp.exc, resp.msg)]
    ELSE [token |-> tok, calls |-> << >>, out |-> Return(tok.access_token)]

-----------------------------------------------------------------------------
(* Request builder *)

Verbs == {"search", "searchByImage", "getItem", "getItemByLegacyId", "getItems",
          "getItemsByItemGroup", "checkCompatibility", "getItemFeed"}

\* lines 106, 112, 156: the verbs sent as POST
PostVerbs == {"searchByImage", "checkCompatibility"}

\* lines 116, 143: the verbs whose path takes the item id
ItemVerbsOnlyGetItem == {"getItem"}

ItemVerbs == {"getItem", "checkCompatibility"}

\* ebaysdk.connection.HTTP_SSL
HTTP_SSL(https) == IF https THEN "https" ELSE "http"

\* ebaysdk.UserAgent
UserAgent == "eBaySDK"

\* ebaysdk.utils.smart_encode under Python 3: the value itself.
smart_encode(v) == v

\* ebaysdk.utils.smart_encode_request_data under Python 3: the UTF-8 bytes.
smart_encode_request_data(s) == [t |-> "bytes", utf8 |-> s]

\* isinstance(data, dict)
is_dict(data) == data.t = "dict"

\* key in d
has_key(d, k) == \E i \in 1..Len(d.items) : d.items[i][1] = k

\* d[key]
get_item(d, k) == d.items[CHOOSE i \in 1..Len(d.items) : d.items[i][1] = k][2]

\* json.dumps of a value of a mapping
json_value(v) ==
    IF v.t = "none" THEN "null"
    ELSE IF v.t = "int" THEN ToString(v.i)
    ELSE "\"" \o v.s \o "\""

RECURSIVE json_items(_)
json_items(items) ==
    IF items = << >> THEN ""
    ELSE "\"" \o items[1][1] \o "\": " \o json_value(items[1][2])
         \o (IF Len(items) > 1 THEN ", " ELSE "")
         \o json_items(Tail(items))

\* json.dumps(data) for a dict: keys in insertion order, separators ', ' and ': '
json_dumps(data) == "{" \o json_items(data.items) \o "}"

\* build_request_data
build_request_data(v, data) ==
    IF v \in PostVerbs /\ is_dict(data) THEN json_dumps(data) ELSE ""

\* The filter of build_request_query's comprehension (lines 116-117).
query_keepsItemId(v, kv) == kv[2] # None

query_keeps(v, kv) ==
    (v \notin ItemVerbs \/ kv[1] # "item_id") /\ kv[2] # None

\* build_request_query
build_request_queryAllVerbs(v, data) ==
    IF is_dict(data)
    THEN LET kept == SelectSeq(data.items, LAMBDA kv : query_keeps(v, kv))
         IN Dict([i \in 1..Len(kept) |-> <<kept[i][1], smart_encode(kept[i][2])>>])
    ELSE None

build_request_query(v, data) ==
    IF v \notin PostVerbs /\ is_dict(data)
    THEN LET kept == SelectSeq(data.items, LAMBDA kv : query_keeps(v, kv))
         IN Dict([i \in 1..Len(kept) |-> <<kept[i][1], smart_encode(kept[i][2])>>])
    ELSE None

\* endpoint_map.get(verb, f'/{verb}'): the template as its literal parts and
\* replacement fields.
endpoint_map(v) ==
    CASE v = "search" -> <<"/item_summary/search">>
      [] v = "searchByImage" -> <<"/item_summary/search_by_image">>
      [] v = "getItem" -> <<"/item/", "{item_id}">>
      [] v = "getItemByLegacyId" -> <<"/item/get_item_by_legacy_id">>
      [] v = "getItems" -> <<"/item/">>
      [] v = "getItemsByItemGroup" -> <<"/item/get_items_by_item_group">>
      [] v = "checkCompatibility" -> <<"/item/", "{item_id}", "/check_compatibility">>
      [] OTHER -> <<"/" \o v>>

RECURSIVE join(_)
join(parts) == IF parts = << >> THEN "" ELSE parts[1] \o join(Tail(parts))

\* endpoint.format(item_id=x)
formatNoSubst(endpoint, x) == join(endpoint)

format(endpoint, x) ==
    join([i \in 1..Len(endpoint) |->
            IF endpoint[i] = "{item_id}" THEN PyStr(x) ELSE endpoint[i]])

\* line 144: not self._request_dict or 'item_id' not in self._request_dict
item_id_missing(rd) ==
    \/ rd = None
    \/ rd.items = << >>
    \/ ~has_key(rd, "item_id")

\* build_request_url, reading self._request_dict
build_request_url(v, cfg, rd) ==
    LET base_url == HTTP_SSL(cfg.https) \o "://" \o cfg.domain \o cfg.uri
        endpoint == endpoint_map(v)
    IN IF v \in ItemVerbs
       THEN IF item_id_missing(rd)
            THEN Raise("ValueError",
                       "item_id is required for getItem and checkCompatibility")
            ELSE Return(base_url \o format(endpoint, get_item(rd, "item_id")))
       ELSE Return(base_url \o join(endpoint))

\* The dict build_request_headers returns, given the value of self.access_token.
headers_dictDefaultSite(cfg, access) ==
    [h \in {"Content-Type", "Accept", "Authorization", "User-Agent",
            "X-EBAY-C-MARKETPLACE-ID"} |->
        CASE h = "Content-Type" -> "application/json"
          [] h = "Accept" -> "application/json"
          [] h = "Authorization" -> "Bearer " \o access
          [] h = "User-Agent" -> UserAgent
          [] h = "X-EBAY-C-MARKETPLACE-ID" -> "EBAY_US"]

headers_dict(cfg, access) ==
    [h \in {"Content-Type", "Accept", "Authorization", "User-Agent",
            "X-EBAY-C-MARKETPLACE-ID"} |->
        CASE h = "Content-Type" -> "application/json"
          [] h = "Accept" -> "application/json"
          [] h = "Authorization" -> "Bearer " \o access
          [] h = "User-Agent" -> UserAgent
          [] h = "X-EBAY-C-MARKETPLACE-ID" -> cfg.siteid]

\* build_request_headers: reads the access_token property, whose exception propagates.
build_request_headers(tok, cfg, t, resp) ==
    LET r == access_token(tok, cfg, t, resp)
    IN [token |-> r.token, calls |-> r.calls,
        out |-> IF r.out.kind = "return"
                THEN Return(headers_dict(cfg, r.out.value))
                ELSE r.out]

\* lines 156-159: the HTTP method of a verb
method_ofNoReset(v) == IF v \in PostVerbs THEN "POST" ELSE method

method_of(v) == IF v \in PostVerbs THEN "POST" ELSE "GET"

-----------------------------------------------------------------------------
(* Response handling *)

\* An entry of the errors or warnings array of a response body.
Entry(id) == [errorId |-> id, category |-> Str("REQUEST"), message |-> Str("Test error")]

Entries == { Entry(id) : id \in {Str("123"), PyInt(456)} }

RECURSIVE EntrySeqs(_)
EntrySeqs(n) ==
    IF n = 0 THEN {<< >>}
    ELSE LET shorter == EntrySeqs(n - 1)
         IN shorter \cup
            { Append(s, e) : s \in {x \in shorter : Len(x) = n - 1}, e \in Entries }

\* response.json(): the errors and warnings arrays, empty when the key is absent
\* (response_data.get(key, [])).
Bodies ==
    { b \in [errors : EntrySeqs(MaxEntries), warnings : EntrySeqs(MaxEntries)] :
        Len(b.errors) + Len(b.warnings) <= MaxEntries }

Responses ==
    { [status_code |-> 200, reason |-> "OK", body |-> b] : b \in Bodies }
    \cup
    { [status_code |-> 400, reason |-> "Bad Request", body |-> b] : b \in Bodies }

\* The connection before any response: no response, no error, empty lists.
NoResponse ==
    /\ response = None
    /\ response_error = None
    /\ resp_body_errors = << >>
    /\ resp_body_warnings = << >>
    /\ resp_codes = << >>

\* process_response: the value of self._response_error after the call.
process_responseAlways(resp, err) == Str(resp.reason)

process_response(resp, err) ==
    IF resp.status_code # 200 THEN Str(resp.reason) ELSE err

\* lines 206, 217: the message of an entry
entry_msg(e) ==
    "Category: " \o PyStr(e.category) \o ", Code: " \o PyStr(e.errorId)
    \o ", " \o PyStr(e.message)

\* lines 203-204, 214-215: a code is appended unless the list holds it
add_codeAlways(codes, code) == Append(codes, code)

add_code(codes, code) ==
    IF \E i \in 1..Len(codes) : codes[i] = code THEN codes ELSE Append(codes, code)

\* The loops of lines 198-207 and 209-218 over one array: the codes list after it.
RECURSIVE codes_after(_, _)
codes_after(entries, codes) ==
    IF entries = << >> THEN codes
    ELSE codes_after(Tail(entries), add_code(codes, entries[1].errorId))

\* The messages appended by one loop.
msgs_of(entries) == [i \in 1..Len(entries) |-> entry_msg(entries[i])]

\* line 186: self._resp_body_errors and len(self._resp_body_errors) > 0
has_stored_errorsNever(errors) == FALSE

has_stored_errors(errors) == errors # << >>

\* line 193: self.verb is None or self.response.status_code != 200
returns_early(v, resp) == v = None \/ resp.status_code # 200

\* _get_resp_body_errors: the three stored lists after the call, whether
\* response.json() was called, and the list returned.
get_resp_body_errors(errors, warnings, codes, v, resp) ==
    IF has_stored_errors(errors)
    THEN [errors |-> errors, warnings |-> warnings, codes |-> codes,
          parsed |-> FALSE, out |-> Return(errors)]
    ELSE IF returns_early(v, resp)
    THEN [errors |-> errors, warnings |-> warnings, codes |-> codes,
          parsed |-> FALSE, out |-> Return(<< >>)]
    ELSE LET data == resp.body
             new_errors == msgs_of(data.errors)
             new_warnings == msgs_of(data.warnings)
             new_codes == codes_after(data.warnings, codes_after(data.errors, << >>))
         IN [errors |-> new_errors, warnings |-> new_warnings, codes |-> new_codes,
             parsed |-> TRUE, out |-> Return(new_errors)]

-----------------------------------------------------------------------------
(* Construction *)

Credentials == {None, Str(""), Str("test_id")}
SiteIds == {"EBAY-US", "EBAY-GB"}

\* The request mappings: up to MaxItems items with distinct keys, and data=None.
Items ==
    {<<"item_id", PyInt(123)>>, <<"item_id", None>>,
     <<"fieldgroups", Str("PRODUCT")>>, <<"fieldgroups", None>>,
     <<"q", Str("test")>>}

RECURSIVE SeqsUpTo(_)
SeqsUpTo(n) ==
    IF n = 0 THEN {<< >>}
    ELSE LET shorter == SeqsUpTo(n - 1)
         IN shorter \cup
            { Append(s, kv) : s \in {x \in shorter : Len(x) = n - 1},
                              kv \in Items }

DistinctKeys(s) == \A i, j \in 1..Len(s) : i # j => s[i][1] # s[j][1]

Mappings == { Dict(s) : s \in {x \in SeqsUpTo(MaxItems) : DistinctKeys(x)} }

Datas == Mappings \cup {None}

\* The mappings build_request is driven with: data=None, {} and the one-item
\* mappings without a None value.
RequestDatas ==
    {None} \cup { d \in Mappings : /\ Len(d.items) <= 1
                                   /\ \A i \in 1..Len(d.items) : d.items[i][2] # None }

Init ==
    /\ config \in [appid : Credentials, certid : Credentials, siteid : SiteIds,
                   domain : {"api.ebay.com"}, uri : {"/buy/browse/v1"},
                   https : {TRUE}]
    /\ token = NoToken
    /\ now = 0
    /\ verb = None
    /\ method = "GET"
    /\ request_dict = None
    /\ request = None
    /\ calls = << >>
    /\ ret = [op |-> "__init__"]
    /\ NoResponse

-----------------------------------------------------------------------------
(* Operations *)

\* Time passes between calls.
Tick ==
    /\ now < MaxTime
    /\ now' = now + 1
    /\ UNCHANGED <<config, token, verb, method, request_dict, request, calls, ret>>
    /\ UNCHANGED respvars

\* A read of the access_token property.
AccessToken ==
    \E resp \in FetchResults(now) :
        LET r == access_token(token, config, now, resp) IN
        /\ token' = r.token
        /\ calls' = r.calls
        /\ ret' = [op |-> "access_token", token0 |-> token, at |-> now, out |-> r.out]
        /\ UNCHANGED <<config, now, verb, method, request_dict, request>>
        /\ UNCHANGED respvars

\* A direct call of build_request_headers(verb).
BuildRequestHeaders ==
    \E v \in Verbs, resp \in FetchResults(now) :
        LET r == build_request_headers(token, config, now, resp) IN
        /\ token' = r.token
        /\ calls' = r.calls
        /\ ret' = [op |-> "build_request_headers", token0 |-> token, at |-> now,
                   out |-> r.out]
        /\ UNCHANGED <<config, now, verb, method, request_dict, request>>
        /\ UNCHANGED respvars

\* build_request(verb, data, verb_attrs): the verb, the mapping and the method are
\* stored first; an exception of the URL or of the headers leaves self.request
\* as it was.
BuildRequest ==
    \E v \in Verbs, data \in RequestDatas, resp \in FetchResults(now) :
        LET url == build_request_url(v, config, data)
            h == build_request_headers(token, config, now, resp)
            params == build_request_query(v, data)
            requestData == build_request_data(v, data)
        IN
        /\ verb' = Str(v)
        /\ request_dict' = data
        /\ method' = method_of(v)
        /\ IF url.kind = "raise"
           THEN /\ ret' = [op |-> "build_request", token0 |-> token, at |-> now,
                           out |-> url]
                /\ calls' = << >>
                /\ UNCHANGED <<token, request>>
           ELSE /\ token' = h.token
                /\ calls' = h.calls
                /\ IF h.out.kind = "raise"
                   THEN /\ ret' = [op |-> "build_request", token0 |-> token,
                                   at |-> now, out |-> h.out]
                        /\ UNCHANGED request
                   ELSE /\ ret' = [op |-> "build_request", token0 |-> token,
                                   at |-> now, out |-> Return(None)]
                        /\ request' = [method |-> method', url |-> url.value,
                                       params |-> params,
                                       data |-> smart_encode_request_data(requestData),
                                       headers |-> h.out.value]
        /\ UNCHANGED <<config, now>>
        /\ UNCHANGED respvars

\* build_request_url(self.verb), as build_request calls it.
BuildRequestUrl ==
    /\ verb # None
    /\ ret' = [op |-> "build_request_url",
               out |-> build_request_url(verb.s, config, request_dict)]
    /\ UNCHANGED <<config, token, now, verb, method, request_dict, request, calls>>
    /\ UNCHANGED respvars

\* build_request_query(self.verb, data), as build_request calls it.
BuildRequestQuery ==
    /\ verb # None
    /\ ret' = [op |-> "build_request_query",
               out |-> Return(build_request_query(verb.s, request_dict))]
    /\ UNCHANGED <<config, token, now, verb, method, request_dict, request, calls>>
    /\ UNCHANGED respvars

\* build_request_data(self.verb, data, verb_attrs), as build_request calls it.
BuildRequestData ==
    /\ verb # None
    /\ ret' = [op |-> "build_request_data",
               out |-> Return(build_request_data(verb.s, request_dict))]
    /\ UNCHANGED <<config, token, now, verb, method, request_dict, request, calls>>
    /\ UNCHANGED respvars

\* A response arrives: self.response is assigned.
SetResponse ==
    /\ response' \in Responses
    /\ UNCHANGED <<config, token, now, verb, method, request_dict, request, calls, ret>>
    /\ UNCHANGED <<response_error, resp_body_errors, resp_body_warnings, resp_codes>>

\* process_response(), once a response is there.
ProcessResponse ==
    /\ response # None
    /\ response_error' = process_response(response, response_error)
    /\ ret' = [op |-> "process_response", status |-> response.status_code,
               out |-> Return(None)]
    /\ UNCHANGED <<config, token, now, verb, method, request_dict, request, calls>>
    /\ UNCHANGED <<response, resp_body_errors, resp_body_warnings, resp_codes>>

\* _get_resp_body_errors(), once a response is there.
GetRespBodyErrors ==
    /\ response # None
    /\ LET r == get_resp_body_errors(resp_body_errors, resp_body_warnings, resp_codes,
                                     verb, response)
       IN /\ resp_body_errors' = r.errors
          /\ resp_body_warnings' = r.warnings
          /\ resp_codes' = r.codes
          /\ ret' = [op |-> "_get_resp_body_errors", status |-> response.status_code,
                     parsed |-> r.parsed, out |-> r.out]
    /\ UNCHANGED <<config, token, now, verb, method, request_dict, request, calls>>
    /\ UNCHANGED <<response, response_error>>

-----------------------------------------------------------------------------
(* Specifications *)

\* The token cache: reads of access_token and of the headers as time passes.
Next ==
    \/ Tick
    \/ AccessToken
    \/ BuildRequestHeaders

Spec == Init /\ [][Next]_vars

\* Sequences of build_request calls on one connection.
NextRequest == BuildRequest

SpecRequest == Init /\ [][NextRequest]_vars

\* The builders of URL, query and body on every verb and mapping: the state is
\* the one build_request(v, data) leaves when its token access raises, and the
\* actions are the builder calls build_request makes.
InitBuilders ==
    /\ config \in [appid : Credentials, certid : Credentials, siteid : SiteIds,
                   domain : {"api.ebay.com"}, uri : {"/buy/browse/v1"},
                   https : {TRUE}]
    /\ token = NoToken
    /\ now = 0
    /\ \E v \in Verbs : verb = Str(v) /\ method = method_of(v)
    /\ request_dict \in Datas
    /\ request = None
    /\ calls = << >>
    /\ ret = [op |-> "build_request"]
    /\ NoResponse

NextBuilders ==
    \/ BuildRequestUrl
    \/ BuildRequestQuery
    \/ BuildRequestData

SpecBuilders == InitBuilders /\ [][NextBuilders]_vars

\* Responses and their handling, on a connection with credentials that has
\* built no request yet (self.verb is None) or was given the verb search.
InitResponse ==
    /\ config \in [appid : {Str("test_id")}, certid : {Str("test_id")},
                   siteid : SiteIds, domain : {"api.ebay.com"},
                   uri : {"/buy/browse/v1"}, https : {TRUE}]
    /\ token = NoToken
    /\ now = 0
    /\ verb \in {None, Str("search")}
    /\ method = "GET"
    /\ request_dict = None
    /\ request = None
    /\ calls = << >>
    /\ ret = [op |-> "__init__"]
    /\ NoResponse

NextResponse ==
    \/ SetResponse
    \/ ProcessResponse
    \/ GetRespBodyErrors

SpecResponse == InitResponse /\ [][NextResponse]_vars

-----------------------------------------------------------------------------
(* Properties of the token cache, checked under Spec *)

\* The state before the last call needed a token: none cached, or the cached one expired.
NeededToken == ret.token0 = NoToken \/ ret.token0.expires_at < ret.at

\* Both credentials are configured.
HasCredentials ==
    /\ config.appid # None /\ config.appid # Str("")
    /\ config.certid # None /\ config.certid # Str("")

\* The last call fetched a token successfully.
Fetched == calls # << >> /\ calls[1].kind = "token"

\* C1 as stated: on every access of access_token (directly or for the headers), a
\* token request is made if and only if no token is cached or the cached token is
\* expired.
C1_FetchIffAbsentOrExpired ==
    ret.op \in {"access_token", "build_request_headers"} =>
        (Len(calls) = 1 <=> NeededToken)

\* C1 amended: on every access, a token request is made if and only if no token is
\* cached or the cached one is expired, and both credentials are configured;
\* an access that needs no token makes no request, leaves the cache alone and
\* returns the cached access_token; after a successful fetch the fetched token is
\* the cached one and its access_token is returned.
C1_FetchIffNeededAndConfigured ==
    ret.op \in {"access_token", "build_request_headers"} =>
        /\ Len(calls) <= 1
        /\ Len(calls) = 1 <=> (NeededToken /\ HasCredentials)
        /\ ~NeededToken =>
            /\ calls = << >>
            /\ token = ret.token0
            /\ ret.op = "access_token" => ret.out = Return(ret.token0.access_token)
        /\ Fetched =>
            /\ token = calls[1].token
            /\ ret.op = "access_token" => ret.out = Return(calls[1].token.access_token)

\* An expired cached token was replaced by a freshly fetched one.
C1_Witness ==
    /\ ret.op = "access_token"
    /\ ret.token0 # NoToken
    /\ ret.token0.expires_at < ret.at
    /\ Fetched
    /\ token = calls[1].token
    /\ token # ret.token0

\* C2: with the app id or the cert id missing, an access of access_token raises
\* ValueError and no token request is made.
C2_MissingCredentialsRaise ==
    (ret.op = "access_token" /\ ~HasCredentials) =>
        /\ ret.out.kind = "raise"
        /\ ret.out.exc = "ValueError"
        /\ calls = << >>

\* An access on a connection whose cert id is the empty string raised ValueError.
C2_Witness ==
    /\ ret.op = "access_token"
    /\ config.appid = Str("test_id")
    /\ config.certid = Str("")
    /\ ret.out.kind = "raise"
    /\ ret.out.exc = "ValueError"

\* C3: when fetch_token raises, whatever the exception, access_token raises
\* ConnectionError after that single attempt.
C3_FetchFailureIsConnectionError ==
    (ret.op = "access_token" /\ calls # << >> /\ calls[1].kind = "raise") =>
        /\ Len(calls) = 1
        /\ ret.out.kind = "raise"
        /\ ret.out.exc = "ConnectionError"

\* C4: build_request_headers on a connection without a cached token raises
\* ValueError, credentials configured or not.
C4_HeadersWithoutTokenRaiseValueError ==
    (ret.op = "build_request_headers" /\ ret.token0 = NoToken) =>
        /\ ret.out.kind = "raise"
        /\ ret.out.exc = "ValueError"

\* C10: headers that were built carry 'Bearer ' and the access_token of the cached
\* token, which was cached and not expired at the call or was fetched by it, the
\* JSON Content-Type and Accept, and the configured site id as marketplace id.
C10_HeadersCarryCachedToken ==
    (ret.op = "build_request_headers" /\ ret.out.kind = "return") =>
        /\ token # NoToken
        /\ ret.out.value["Authorization"] = "Bearer " \o token.access_token
        /\ \/ token = ret.token0 /\ ret.token0.expires_at >= ret.at /\ calls = << >>
           \/ Fetched /\ token = calls[1].token
        /\ ret.out.value["Content-Type"] = "application/json"
        /\ ret.out.value["Accept"] = "application/json"
        /\ ret.out.value["X-EBAY-C-MARKETPLACE-ID"] = config.siteid

\* Headers were built from a cached, unexpired token on the EBAY-GB site without
\* a token request.
C10_Witness ==
    /\ ret.op = "build_request_headers"
    /\ ret.out.kind = "return"
    /\ ret.token0 # NoToken
    /\ calls = << >>
    /\ config.siteid = "EBAY-GB"
    /\ ret.out.value["Authorization"] = "Bearer tokB"

\* A step that is an access of access_token, directly or for the headers.
TokenAccessStep ==
    ret'.op \in {"access_token", "build_request_headers"} /\ now' = now

\* The last call was a token access that raised.
AccessFailed ==
    ret.op \in {"access_token", "build_request_headers"} /\ ret.out.kind = "raise"

\* C14 as stated: an access that raises leaves the cached token as it was, and
\* the access after a failed one requests a token and returns if the request
\* gives one.
C14_FailureKeepsCacheAndRefetches ==
    [][TokenAccessStep =>
        /\ ret'.out.kind = "raise" => token' = token
        /\ AccessFailed =>
            /\ calls' # << >>
            /\ calls'[1].kind = "token" =>
                ret'.out.kind = "return" /\ token' = calls'[1].token]_vars

\* C14 amended: an access that raises leaves the cached token as it was; the
\* access after a failed one requests a token, and returns with it cached if the
\* request gives one, when both credentials are configured, and raises
\* ValueError again without a request when one is missing.
C14_FailureKeepsCache ==
    [][TokenAccessStep =>
        /\ ret'.out.kind = "raise" => token' = token
        /\ (AccessFailed /\ HasCredentials) =>
            /\ calls' # << >>
            /\ calls'[1].kind = "token" =>
                ret'.out.kind = "return" /\ token' = calls'[1].token
        /\ (AccessFailed /\ ~HasCredentials) =>
            /\ calls' = << >>
            /\ ret'.out.kind = "raise"
            /\ ret'.out.exc = "ValueError"]_vars

\* A fetch failed on an expired cached token, which is still the cached one.
C14_Witness ==
    /\ ret.op = "access_token"
    /\ ret.out.kind = "raise"
    /\ calls # << >>
    /\ ret.token0 # NoToken
    /\ ret.token0.expires_at < ret.at
    /\ token = ret.token0

-----------------------------------------------------------------------------
(* Properties of build_request, checked under SpecRequest *)

\* C5: after build_request the method is POST if the verb just given is
\* searchByImage or checkCompatibility and GET otherwise, whether the call
\* returned or raised, and whatever the method was before; a connection that has
\* built nothing yet has the constructor's GET.
C5_MethodFollowsLastVerb ==
    /\ ret.op = "__init__" => verb = None /\ method = "GET"
    /\ ret.op = "build_request" =>
        /\ verb # None
        /\ method = (IF verb.s \in {"searchByImage", "checkCompatibility"}
                     THEN "POST" ELSE "GET")
        /\ ret.out.kind = "return" => request.method = method

\* A GET verb whose build raised follows a POST request that was built: the
\* method is GET again.
C5_Witness ==
    /\ ret.op = "build_request"
    /\ request # None
    /\ request.method = "POST"
    /\ verb = Str("getItem")
    /\ ret.out.kind = "raise"
    /\ method = "GET"

-----------------------------------------------------------------------------
(* Properties of the builders, checked under SpecBuilders *)

IsPostVerb == verb.s \in {"searchByImage", "checkCompatibility"}

BaseUrl == "https://api.ebay.com/buy/browse/v1"

\* The items of the mapping for which Test holds, in the mapping's order.
ItemsWhere(Test(_)) == SelectSeq(request_dict.items, Test)

\* C6: for every verb and mapping, a GET verb has the empty body and a query made
\* of items of the mapping; a POST verb has as body the JSON text of the whole
\* mapping, item_id included, and no query (None); never both a query and a body.
C6_QueryAndBodyExclusive ==
    is_dict(request_dict) =>
        /\ ret.op = "build_request_data" =>
            ret.out.value = (IF IsPostVerb THEN json_dumps(request_dict) ELSE "")
        /\ (/\ ret.op = "build_request_data"
            /\ IsPostVerb
            /\ request_dict.items = <<<<"item_id", PyInt(123)>>,
                                      <<"fieldgroups", Str("PRODUCT")>>>>) =>
            ret.out.value = "{\"item_id\": 123, \"fieldgroups\": \"PRODUCT\"}"
        /\ ret.op = "build_request_query" =>
            IF IsPostVerb
            THEN ret.out.value = None
            ELSE /\ is_dict(ret.out.value)
                 /\ \A i \in 1..Len(ret.out.value.items) :
                        \E j \in 1..Len(request_dict.items) :
                            ret.out.value.items[i] = request_dict.items[j]
        /\ \/ build_request_query(verb.s, request_dict) = None
           \/ build_request_data(verb.s, request_dict) = ""

\* The body built for checkCompatibility is the whole mapping as JSON.
C6_Witness ==
    /\ ret.op = "build_request_data"
    /\ verb = Str("checkCompatibility")
    /\ ret.out.value = "{\"fieldgroups\": null, \"item_id\": 123}"

\* C7: build_request_url raises ValueError for getItem and checkCompatibility when
\* the mapping is absent, empty or has no item_id key, and returns a URL in every
\* other case, in particular for every other verb.
C7_ItemIdRequired ==
    ret.op = "build_request_url" =>
        LET needs == verb.s \in {"getItem", "checkCompatibility"}
            lacks == \/ request_dict = None
                     \/ \A i \in 1..Len(request_dict.items) :
                            request_dict.items[i][1] # "item_id"
        IN IF needs /\ lacks
           THEN ret.out.kind = "raise" /\ ret.out.exc = "ValueError"
           ELSE ret.out.kind = "return"

\* checkCompatibility on a non-empty mapping without item_id raised ValueError.
C7_Witness ==
    /\ ret.op = "build_request_url"
    /\ verb = Str("checkCompatibility")
    /\ request_dict = Dict(<<<<"q", Str("test")>>>>)
    /\ ret.out.kind = "raise"
    /\ ret.out.exc = "ValueError"

\* The text of the item_id of the mapping, as it appears in a path.
ItemIdText ==
    LET i == CHOOSE i \in 1..Len(request_dict.items) :
                request_dict.items[i][1] = "item_id"
        x == request_dict.items[i][2]
    IN IF x = PyInt(123) THEN "123" ELSE "None"

\* C8: a URL that is built is the base URL followed by /item/X for getItem, by
\* /item/X/check_compatibility for checkCompatibility, X being the item_id of the
\* mapping, and by the fixed path of the verb for the other verbs, whatever the
\* mapping.
C8_UrlOfVerb ==
    (ret.op = "build_request_url" /\ ret.out.kind = "return") =>
        ret.out.value =
            CASE verb.s = "getItem" -> BaseUrl \o "/item/" \o ItemIdText
              [] verb.s = "checkCompatibility" ->
                    BaseUrl \o "/item/" \o ItemIdText \o "/check_compatibility"
              [] verb.s = "search" -> BaseUrl \o "/item_summary/search"
              [] verb.s = "searchByImage" -> BaseUrl \o "/item_summary/search_by_image"
              [] verb.s = "getItemByLegacyId" -> BaseUrl \o "/item/get_item_by_legacy_id"
              [] verb.s = "getItems" -> BaseUrl \o "/item/"
              [] verb.s = "getItemsByItemGroup" ->
                    BaseUrl \o "/item/get_items_by_item_group"
              [] OTHER -> BaseUrl \o "/" \o verb.s

\* The URL of checkCompatibility for item 123 was built.
C8_Witness ==
    /\ ret.op = "build_request_url"
    /\ verb = Str("checkCompatibility")
    /\ ret.out = Return("https://api.ebay.com/buy/browse/v1/item/123/check_compatibility")

\* C9 as stated: the query of getItem holds every item of the mapping except
\* item_id, each with its value, and the query of any other GET verb does not
\* lose item_id.
C9_QueryDropsOnlyItemId ==
    (ret.op = "build_request_query" /\ is_dict(request_dict) /\ ~IsPostVerb) =>
        IF verb.s = "getItem"
        THEN ret.out.value = Dict(ItemsWhere(LAMBDA kv : kv[1] # "item_id"))
        ELSE \A i \in 1..Len(request_dict.items) :
                (/\ request_dict.items[i][1] = "item_id"
                 /\ request_dict.items[i][2] # None) =>
                    \E j \in 1..Len(ret.out.value.items) :
                        ret.out.value.items[j] = request_dict.items[i]

\* C9 amended: the query of getItem holds every item of the mapping whose key is
\* not item_id and whose value is not None, in the mapping's order; the query of
\* any other GET verb holds every item whose value is not None, item_id included.
C9_QueryDropsItemIdAndNone ==
    (ret.op = "build_request_query" /\ is_dict(request_dict) /\ ~IsPostVerb) =>
        ret.out.value =
            IF verb.s = "getItem"
            THEN Dict(ItemsWhere(LAMBDA kv : kv[1] # "item_id" /\ kv[2] # None))
            ELSE Dict(ItemsWhere(LAMBDA kv : kv[2] # None))

\* {item_id: 123, fieldgroups: PRODUCT} gave getItem the query {fieldgroups: PRODUCT}.
C9_Witness ==
    /\ ret.op = "build_request_query"
    /\ verb = Str("getItem")
    /\ request_dict = Dict(<<<<"item_id", PyInt(123)>>, <<"fieldgroups", Str("PRODUCT")>>>>)
    /\ ret.out.value = Dict(<<<<"fieldgroups", Str("PRODUCT")>>>>)

-----------------------------------------------------------------------------
(* Properties of the response handling, checked under SpecResponse *)

\* A step that is a call of _get_resp_body_errors.
GetErrorsStep == ret'.op = "_get_resp_body_errors" /\ response' = response

\* A step that is a call of process_response.
ProcessStep == ret'.op = "process_response" /\ response' = response

\* The message of the n-th entry of an array, written out.
MsgText(e) ==
    IF e.errorId = Str("123")
    THEN "Category: REQUEST, Code: 123, Test error"
    ELSE "Category: REQUEST, Code: 456, Test error"

MsgTexts(entries) == [i \in 1..Len(entries) |-> MsgText(entries[i])]

\* The errorIds of the entries, each at its first occurrence only.
FirstIds(entries) ==
    LET first == SelectSeq([i \in 1..Len(entries) |-> <<i, entries[i].errorId>>],
                           LAMBDA p : \A j \in 1..(p[1] - 1) : entries[j].errorId # p[2])
    IN [i \in 1..Len(first) |-> first[i][2]]

\* C11: with no errors stored, a call on a status-200 response returns one
\* message per entry of the errors array, in order, and stores one message per
\* entry of the warnings array, which add nothing to the errors returned; a call
\* on any other status returns the empty list and does not read the body.
C11_ErrorsOfResponse ==
    [][(GetErrorsStep /\ resp_body_errors = << >>) =>
        IF response.status_code = 200
        THEN /\ ret'.out = Return(MsgTexts(response.body.errors))
             /\ resp_body_warnings' = MsgTexts(response.body.warnings)
        ELSE /\ ret'.out = Return(<< >>)
             /\ ~ret'.parsed]_vars

\* C12: process_response returns whatever the status: on a status other than 200
\* the reason phrase becomes the response error, on 200 the response error stays
\* what it was.
C12_ProcessResponseRecordsReason ==
    [][ProcessStep =>
        /\ ret'.out.kind = "return"
        /\ response_error' = (IF response.status_code # 200
                              THEN Str(response.reason)
                              ELSE response_error)]_vars

\* process_response ran on a 200 response and the reason recorded for an earlier
\* response is still there.
C12_Witness ==
    /\ ret.op = "process_response"
    /\ ret.status = 200
    /\ response.status_code = 200
    /\ response_error = Str("Bad Request")

\* C13: after a call that parsed the response, the codes are the errorIds of the
\* errors array followed by those of the warnings array, each once at its first
\* occurrence, while the error and warning messages are one per entry.
C13_CodesOncePerId ==
    [][(GetErrorsStep /\ ret'.parsed) =>
        /\ resp_codes' = FirstIds(response.body.errors \o response.body.warnings)
        /\ Len(resp_body_errors') = Len(response.body.errors)
        /\ Len(resp_body_warnings') = Len(response.body.warnings)]_vars

\* An error and a warning with the same errorId were parsed: two messages, one code.
C13_Witness ==
    /\ ret.op = "_get_resp_body_errors"
    /\ ret.parsed
    /\ Len(resp_body_errors) = 1
    /\ Len(resp_body_warnings) = 1
    /\ resp_codes = <<PyInt(456)>>

\* C15: a call made while errors are stored returns the stored list, does not
\* read the response and changes none of the stored errors, warnings and codes;
\* a call on a status other than 200 changes none of them either.
C15_StoredErrorsStick ==
    [][GetErrorsStep =>
        /\ resp_body_errors # << >> =>
            /\ ret'.out = Return(resp_body_errors)
            /\ ~ret'.parsed
            /\ UNCHANGED <<resp_body_errors, resp_body_warnings, resp_codes>>
        /\ response.status_code # 200 =>
            /\ ~ret'.parsed
            /\ UNCHANGED <<resp_body_errors, resp_body_warnings, resp_codes>>]_vars

\* A call on a 200 response without errors returned the errors stored from an
\* earlier response, unread.
C15_Witness ==
    /\ ret.op = "_get_resp_body_errors"
    /\ ret.status = 200
    /\ ~ret.parsed
    /\ verb # None
    /\ response.status_code = 200
    /\ response.body.errors = << >>
    /\ ret.out.value # << >>
    /\ ret.out.value = resp_body_errors

====
